---- MODULE Spec2Model ----
(***************************************************************************)
(* A model of qiskit_metal/draw/utility.py: the geometry aggregator        *)
(* (get_all_geoms, flatten_all_filter, get_all_component_bounds), the      *)
(* vector helpers (array_chop, vec_unit_planar, class Vector) and the     *)
(* colinear-point filter (remove_colinear_pts).                            *)
(*                                                                         *)
(* Numbers.  A float is modelled exactly as a value a + t*eps, written     *)
(* [k |-> "num", a |-> a, t |-> t], where eps is the machine epsilon       *)
(* np.finfo(float).eps, a is an integer and t a small integer, so that     *)
(* t*eps is far below 1.  NaN is [k |-> "nan"].  The quotient x / norm(v)  *)
(* of a component by the norm of a non-zero vector is kept symbolic,       *)
(* [k |-> "quot", num |-> x, den |-> v, rounded |-> b].                    *)
(***************************************************************************)
EXTENDS Integers, Sequences, FiniteSets, TLC

VARIABLES
    pc,         \* which call is running and how far it has got
    points,     \* remove_colinear_pts: the argument `points`
    pass1,      \* remove_colinear_pts: `points` after the first np.delete
    cleaned,    \* remove_colinear_pts: the returned array
    rnd,        \* does this build's np.dot of two inexactly normalised parallel vectors reach 1.0
    components, \* aggregator: the argument `components` / `obj`
    hashable,   \* aggregator: does this build's shapely give geometries a __hash__
    geomres,    \* aggregator: the outcome of the call
    vecarg,     \* vector helpers: the argument
    vecres      \* vector helpers: the outcome of the call

vars == <<pc, points, pass1, cleaned, rnd, components, hashable, geomres, vecarg, vecres>>

\* Bounds of the model.
MaxX == 3
MaxLen == 4

--------------------------------------------------------------------------
(* Numbers and vectors *)

Num(a, t) == [k |-> "num", a |-> a, t |-> t]
NaN == [k |-> "nan"]
Zero == Num(0, 0)

IsNum(x) == x.k = "num"
IsNaN(x) == x.k = "nan"

\* x - y on floats (nan propagates)
Sub(x, y) ==
    IF IsNum(x) /\ IsNum(y) THEN Num(x.a - y.a, x.t - y.t) ELSE NaN

\* -x
Neg(x) ==
    IF IsNum(x) THEN Num(0 - x.a, 0 - x.t)
    ELSE IF IsNaN(x) THEN NaN
    ELSE [x EXCEPT !.num = Num(0 - x.num.a, 0 - x.num.t)]

\* array(p): a point given as a pair of Python numbers becomes a float array
array(p) == [i \in 1..Len(p) |-> Num(p[i], 0)]

\* elementwise v - w of two arrays of the same length
VSub(v, w) == [i \in 1..Len(v) |-> Sub(v[i], w[i])]

\* numpy.linalg.norm(v) == 0 : every component is exactly zero
norm_is_zero(v) == \A i \in 1..Len(v) : v[i] = Zero

\* np.finfo(float).eps multiplier defaults
machine_tol == 100
tol == 100

\* array_chop(vec, zero, rtol=0, machine_tol=100):
\*   mask = isclose(vec, zero, rtol=0, atol=machine_tol*eps); vec[mask] = 0
\* isclose(x, zero) is |x - zero| <= atol; a nan is never close.
isclose(x, zero) ==
    /\ IsNum(x)
    /\ x.a = zero.a
    /\ x.t - zero.t <= machine_tol
    /\ zero.t - x.t <= machine_tol

array_chop(vec, zero) ==
    [i \in 1..Len(vec) |-> IF isclose(vec[i], zero) THEN Zero ELSE vec[i]]

\* Vector.is_zero(vec, tol=100): norm(vec) < tol*eps
SumSq(v) == IF Len(v) = 2 THEN v[1].t * v[1].t + v[2].t * v[2].t
            ELSE v[1].t * v[1].t + v[2].t * v[2].t + v[3].t * v[3].t

is_zero(vec) ==
    /\ \A i \in 1..Len(vec) : IsNum(vec[i]) /\ vec[i].a = 0
    /\ SumSq(vec) < tol * tol

\* Vector.are_same(v1, v2, tol=100)
are_same(v1, v2) == is_zero(VSub(v1, v2))

\* x / norm(v) for a vector v of non-zero norm
Quot(x, v) == [k |-> "quot", num |-> x, den |-> v, rounded |-> FALSE]

\* vec_unit_planar(vector), for a vector of 2 or 3 components; any other
\* length raises.
vec_unit_planar_2(v) ==
    IF norm_is_zero(v) THEN v ELSE <<Quot(v[1], v), Quot(v[2], v)>>

vec_unit_planar(vector) ==
    LET v == array_chop(vector, Zero) IN
    IF Len(v) = 2 THEN [err |-> "", val |-> vec_unit_planar_2(v)]
    ELSE IF Len(v) = 3
         THEN [err |-> "",
               val |-> vec_unit_planar_2(array_chop(<<v[1], v[2]>>, Zero)) \o <<v[3]>>]
         ELSE [err |-> "Exception", val |-> <<>>]

--------------------------------------------------------------------------
(* Vector.angle_between and remove_colinear_pts *)

\* the leading part of a float a + t*eps decides the direction of a vector
Cross(v, w) == v[1].a * w[2].a - v[2].a * w[1].a
Dot(v, w) == v[1].a * w[1].a + v[2].a * w[2].a
AxisAligned(v) == v[1] = Zero \/ v[2] = Zero

\* Vector.angle_between(v1, v2) == 0, for vectors with integer components:
\* arccos(clip(dot(v1_u, v2_u), -1, 1)) is 0 exactly when the dot product of
\* the two planar unit vectors reaches 1.0.  A zero vector stays zero in
\* vec_unit_planar and gives a dot product of 0.  Unit vectors along an
\* axis are exact; for any other common direction the components v/norm
\* are rounded and whether their dot product reaches 1.0 depends on the
\* rounding of the build (r).
angle_between_is_zero(v1, v2, r) ==
    LET u1 == vec_unit_planar(v1).val
        u2 == vec_unit_planar(v2).val
    IN  IF u1[1].k # "quot" \/ u2[1].k # "quot" THEN FALSE
        ELSE LET d1 == u1[1].den
                 d2 == u2[1].den
             IN  /\ Cross(d1, d2) = 0
                 /\ Dot(d1, d2) > 0
                 /\ (AxisAligned(d1) \/ r)

\* points[i], with the 0-based index of the code
At(pts, i) == pts[i + 1]

\* np.delete(points, remove_idx, axis=0)
np_delete(pts, remove_idx) ==
    LET keep == {i \in 0..(Len(pts) - 1) : i \notin remove_idx}
        F[n \in 0..Len(pts)] ==
            IF n = 0 THEN <<>>
            ELSE IF (n - 1) \in keep THEN Append(F[n - 1], pts[n]) ELSE F[n - 1]
    IN  F[Len(pts)]

\* the body of the first loop for one i: is i-1 appended to remove_idx
colinear_at(pts, i, r) ==
    LET v1 == VSub(array(At(pts, i - 2)), array(At(pts, i - 1)))
        v2 == VSub(array(At(pts, i - 1)), array(At(pts, i)))
    IN  IF are_same(v1, v2) THEN TRUE
        ELSE angle_between_is_zero(v1, v2, r)

\* the first loop, for i in range(2, len(points)), from i on; acc is remove_idx
RECURSIVE first_loop(_, _, _, _)
first_loop(pts, i, acc, r) ==
    IF i >= Len(pts) THEN acc
    ELSE first_loop(pts, i + 1,
                    IF colinear_at(pts, i, r) THEN acc \cup {i - 1} ELSE acc, r)

\* variant: the loop marks i instead of i-1
remove_idx_1_marks_i(pts, r) ==
    {i \in 2..(Len(pts) - 1) : colinear_at(pts, i, r)}

remove_idx_1(pts, r) == first_loop(pts, 2, {}, r)

\* the second loop, for i in range(1, len(points)): norm(points[i]-points[i-1]) == 0
RECURSIVE second_loop(_, _, _)
second_loop(pts, i, acc) ==
    IF i >= Len(pts) THEN acc
    ELSE second_loop(pts, i + 1,
                     IF norm_is_zero(VSub(array(At(pts, i)), array(At(pts, i - 1))))
                     THEN acc \cup {i} ELSE acc)

\* variant: the loop starts one index late, range(2, len(points))
remove_idx_2_from_two(pts) == second_loop(pts, 2, {})

remove_idx_2(pts) == second_loop(pts, 1, {})

\* the input points: a row along the x axis, two points above it and one
\* far point on the diagonal, so that the lists hold repeated points, turns,
\* reversals, and parallel segments of different lengths both along an axis,
\* (0,0) (1,0) (3,0), and off the axes, (0,0) (1,1) (MaxX,MaxX)
Grid == ((0..MaxX) \X {0}) \cup ((1..2) \X {1}) \cup {<<MaxX, MaxX>>}
PointLists == UNION {[1..n -> Grid] : n \in 0..MaxLen}

InitPts ==
    /\ pc = "start"
    /\ points \in PointLists
    /\ rnd \in BOOLEAN
    /\ pass1 = <<>>
    /\ cleaned = <<>>
    /\ components = <<>>
    /\ hashable = FALSE
    /\ geomres = <<>>
    /\ vecarg = <<>>
    /\ vecres = <<>>

\* remove_colinear_pts, lines 192-200
FirstPass ==
    /\ pc = "start"
    /\ pass1' = np_delete(points, remove_idx_1(points, rnd))
    /\ pc' = "pass1"
    /\ UNCHANGED <<points, cleaned, rnd, components, hashable, geomres, vecarg, vecres>>

\* remove_colinear_pts, lines 202-209
SecondPass ==
    /\ pc = "pass1"
    /\ cleaned' = np_delete(pass1, remove_idx_2(pass1))
    /\ pc' = "done"
    /\ UNCHANGED <<points, pass1, rnd, components, hashable, geomres, vecarg, vecres>>

NextPts == FirstPass \/ SecondPass

SpecPts == InitPts /\ [][NextPts]_vars

--------------------------------------------------------------------------
(* Properties of remove_colinear_pts *)

\* number of members of S below k, plus one: the place of k when S is listed in order
Place(S, k) == Cardinality({m \in S : m < k}) + 1

\* the two segments that meet at the 0-based index k of pts
SegBefore(pts, k) == VSub(array(At(pts, k - 1)), array(At(pts, k)))
SegAfter(pts, k) == VSub(array(At(pts, k)), array(At(pts, k + 1)))

\* C4: the first pass removes exactly the interior indices i-1 whose two
\* segments are the same vector or make an angle of zero, each decided on
\* the original sequence; the kept points keep their order, and the first
\* and the last point stay.
C4_FirstPassRemovesMarked ==
    pc \in {"pass1", "done"} =>
        LET n == Len(points)
            Marked == {k \in 1..(n - 2) :
                         \/ are_same(SegBefore(points, k), SegAfter(points, k))
                         \/ angle_between_is_zero(SegBefore(points, k),
                                                  SegAfter(points, k), rnd)}
            Kept == (0..(n - 1)) \ Marked
        IN  /\ Len(pass1) = Cardinality(Kept)
            /\ \A k \in Kept : pass1[Place(Kept, k)] = points[k + 1]
            /\ n >= 1 => /\ pass1[1] = points[1]
                         /\ pass1[Len(pass1)] = points[n]

C4_Witness ==
    /\ pc = "pass1"
    /\ points = << <<0, 0>>, <<1, 0>>, <<2, 0>>, <<2, 1>> >>
    /\ pass1 = << <<0, 0>>, <<2, 0>>, <<2, 1>> >>

\* C5: the returned sequence has no point at zero distance from its
\* predecessor, and it is the first-pass sequence with every run of
\* identical consecutive points collapsed to the first point of the run.
C5_NoConsecutiveDuplicates ==
    pc = "done" =>
        LET Heads == {j \in 1..Len(pass1) : j = 1 \/ pass1[j] # pass1[j - 1]}
        IN  /\ \A j \in 2..Len(cleaned) :
                  ~norm_is_zero(VSub(array(cleaned[j]), array(cleaned[j - 1])))
            /\ Len(cleaned) = Cardinality(Heads)
            /\ \A j \in Heads : cleaned[Place(Heads, j)] = pass1[j]

C5_Witness ==
    /\ pc = "done"
    /\ points = << <<0, 0>>, <<0, 0>>, <<1, 1>> >>
    /\ cleaned = << <<0, 0>>, <<1, 1>> >>

\* C10: the returned sequence has no interior point whose preceding and
\* following segments point in the same direction, so that a second
\* application of remove_colinear_pts would remove nothing.
SameDirection(v, w) ==
    /\ ~norm_is_zero(v)
    /\ ~norm_is_zero(w)
    /\ Cross(v, w) = 0
    /\ Dot(v, w) > 0

C10_NoColinearPointLeft ==
    pc = "done" =>
        /\ \A k \in 1..(Len(cleaned) - 2) :
              ~SameDirection(SegBefore(cleaned, k), SegAfter(cleaned, k))
        /\ np_delete(cleaned, remove_idx_1(cleaned, rnd)) = cleaned

--------------------------------------------------------------------------
(* The vector helpers as calls: array_chop, vec_unit_planar and            *)
(* Vector.two_points_described                                             *)

\* Bounds of the inputs of the vector helpers.
MaxA == 1
MaxPts == 3

\* floats a + t*eps around the chopping tolerance
TinyParts == {0 - (machine_tol + 1), 0 - machine_tol, 0, 1, machine_tol, machine_tol + 1}
Floats == {Num(a, t) : a \in (0 - MaxA)..MaxA, t \in TinyParts}
\* vectors of 2 and 3 components, and of 1 component for the other lengths
Vectors == UNION {[1..n -> Floats] : n \in 1..3}
ZeroArgs == {Num(a, 0) : a \in (0 - MaxA)..MaxA}
TwoPointArgs == UNION {[1..n -> Grid] : n \in 0..MaxPts}

\* np.round(x, decimals=11): a residue of the size of eps vanishes
Round11(x) ==
    IF IsNum(x) THEN Num(x.a, 0)
    ELSE IF IsNaN(x) THEN NaN
    ELSE [x EXCEPT !.rounded = TRUE]

\* distance_vec / norm(distance_vec): 0/0 is nan in numpy (a RuntimeWarning, no exception)
unit_of(v) ==
    IF norm_is_zero(v) THEN [i \in 1..Len(v) |-> NaN]
    ELSE [i \in 1..Len(v) |-> Quot(v[i], v)]

\* Vector.rotate(xy, np.pi/2): qx = cos*x - sin*y, qy = sin*x + cos*y with
\* sin = 1 and cos = 6.1e-17, a residue that the rounding to 11 decimals
\* of the caller removes
rotate_half_pi(xy) == <<Neg(xy[2]), xy[1]>>

\* Vector.two_points_described(points2D): the three returned vectors, and
\* whether the zero-length message was logged
two_points_described(points2D) ==
    IF Len(points2D) # 2
    THEN [err |-> "AssertionError", distance_vec |-> <<>>, unit_vec |-> <<>>,
          tangent_vec |-> <<>>, debug |-> FALSE]
    ELSE LET start == array(points2D[1])
             end == array(points2D[2])
             distance_vec == VSub(end, start)
             unit_vec == unit_of(distance_vec)
             rot == rotate_half_pi(unit_vec)
         IN  [err |-> "", distance_vec |-> distance_vec, unit_vec |-> unit_vec,
              tangent_vec |-> <<Round11(rot[1]), Round11(rot[2])>>,
              debug |-> is_zero(distance_vec)]

InitVec ==
    /\ \/ /\ pc = "call_array_chop"
          /\ vecarg \in [vec : Vectors, zero : ZeroArgs]
       \/ /\ pc = "call_vec_unit_planar"
          /\ vecarg \in [vector : Vectors]
       \/ /\ pc = "call_two_points_described"
          /\ vecarg \in [points2D : TwoPointArgs]
    /\ vecres = <<>>
    /\ points = <<>>
    /\ rnd = FALSE
    /\ pass1 = <<>>
    /\ cleaned = <<>>
    /\ components = <<>>
    /\ hashable = FALSE
    /\ geomres = <<>>

ArrayChop ==
    /\ pc = "call_array_chop"
    /\ vecres' = array_chop(vecarg.vec, vecarg.zero)
    /\ pc' = "ret_array_chop"
    /\ UNCHANGED <<points, pass1, cleaned, rnd, components, hashable, geomres, vecarg>>

VecUnitPlanar ==
    /\ pc = "call_vec_unit_planar"
    /\ vecres' = vec_unit_planar(vecarg.vector)
    /\ pc' = "ret_vec_unit_planar"
    /\ UNCHANGED <<points, pass1, cleaned, rnd, components, hashable, geomres, vecarg>>

TwoPointsDescribed ==
    /\ pc = "call_two_points_described"
    /\ vecres' = two_points_described(vecarg.points2D)
    /\ pc' = "ret_two_points_described"
    /\ UNCHANGED <<points, pass1, cleaned, rnd, components, hashable, geomres, vecarg>>

NextVec == ArrayChop \/ VecUnitPlanar \/ TwoPointsDescribed

SpecVec == InitVec /\ [][NextVec]_vars

--------------------------------------------------------------------------
(* Properties of the vector helpers *)

\* C6: the third component of vec_unit_planar(v) is the third component of
\* v, also when it lies within 100 machine epsilons of zero.
C6_ZUnchanged ==
    (pc = "ret_vec_unit_planar" /\ Len(vecarg.vector) = 3)
        => /\ vecres.err = ""
           /\ vecres.val[3] = vecarg.vector[3]

\* C7: array_chop(vec, zero) replaces each component within the tolerance
\* of zero by the value zero and leaves every other component as it was.
C7_ChopReplacesByZeroArg ==
    pc = "ret_array_chop" =>
        /\ Len(vecres) = Len(vecarg.vec)
        /\ \A i \in 1..Len(vecres) :
              vecres[i] = IF isclose(vecarg.vec[i], vecarg.zero)
                          THEN vecarg.zero ELSE vecarg.vec[i]

\* C8: two_points_described fails with an assertion error unless it is
\* given exactly two points, and for two coincident points it returns three
\* zero vectors without failing.
C8_TwoPointsDescribed ==
    pc = "ret_two_points_described" =>
        LET pts == vecarg.points2D IN
        /\ Len(pts) # 2 => vecres.err = "AssertionError"
        /\ (Len(pts) = 2 /\ pts[1] = pts[2]) =>
              /\ vecres.err = ""
              /\ vecres.distance_vec = <<Zero, Zero>>
              /\ vecres.unit_vec = <<Zero, Zero>>
              /\ vecres.tangent_vec = <<Zero, Zero>>

--------------------------------------------------------------------------
(* The geometry aggregator: get_all_geoms, flatten_all_filter and          *)
(* get_all_component_bounds                                                *)
(*                                                                         *)
(* Objects.  A shapely geometry is [t |-> "geom", cls, pts] with the       *)
(* list pts of its vertices; a dict is [t |-> "dict", items] with the      *)
(* list of its (name, obj) entries in insertion order; a metal component   *)
(* is [t |-> "component", geoms] with the dict its get_all_geom() returns; *)
(* [t |-> "other"] is an object of any other type.  A Python set is        *)
(* [t |-> "set", members], None is [t |-> "none"] and a raised exception   *)
(* is [t |-> "error", err].                                                *)

\* Bounds of the inputs of the aggregator.
MaxKeys == 2

Geom(cls, pts) == [t |-> "geom", cls |-> cls, pts |-> pts]
Dict(items) == [t |-> "dict", items |-> items]
PySet(members) == [t |-> "set", members |-> members]
None == [t |-> "none"]
Error(err) == [t |-> "error", err |-> err]
Other == [t |-> "other"]
Component(geoms) == [t |-> "component", geoms |-> geoms]

IsDict(obj) == obj.t = "dict"
IsError(obj) == obj.t = "error"

\* the unit square with lower left corner (x, y), as a Polygon
Square(x, y) ==
    Geom("Polygon", << <<x, y>>, <<x + 1, y>>, <<x + 1, y + 1>>, <<x, y + 1>> >>)

Polygons == {Square(0, 0), Square(2, 2)}
Geoms == Polygons \cup {Geom("Point", << <<1, 1>> >>)}
Leaves == Geoms \cup {Component(Dict(<< <<"poly", Square(0, 0)>> >>)), Other}

NameOf(i) == <<"a", "b", "c", "d">>[i]

\* the ways to choose the names of m entries among the first n names
NameChoices(m, n) ==
    {f \in [1..m -> 1..n] : \A i, j \in 1..m : f[i] = f[j] => i = j}

\* the dict with the entries NameOf(f[i]): g[i], in this order
DictOf(f, g) == Dict([i \in 1..Len(f) |-> <<NameOf(f[i]), g[i]>>])

\* the nested dicts: at most two geometries under distinct names
InnerDicts ==
    UNION {{DictOf(f, g) : <<f, g>> \in NameChoices(m, 2) \X [1..m -> Geoms]} : m \in 0..2}

\* the values of the outer dict
Values == Leaves \cup InnerDicts

\* isinstance(obj, filter_obj) for a shapely class filter_obj
isinstance(obj, cls) == obj.t = "geom" /\ obj.cls = cls

\* new_name(name), lines 79-80
new_name(root_name, name) ==
    IF root_name # "" THEN root_name \o "." \o name ELSE name

\* can the value be put in a Python set: a dict or a set has no hash, None
\* has, and a geometry has one when this build's shapely defines it (h)
Hashable(val, h) ==
    IF val.t = "geom" THEN h ELSE val.t \notin {"dict", "set"}

\* get_all_geoms(obj, root_name): the returned value val and the names log
\* of the debug messages; h says whether geometries are hashable
RECURSIVE get_all_geoms(_, _, _)
RECURSIVE get_all_geoms_items(_, _, _, _, _, _)

\* the set comprehension of line 97 from entry i on; acc holds the members
\* so far and log the messages so far
get_all_geoms_items(items, i, acc, log, root_name, h) ==
    IF i > Len(items) THEN [val |-> PySet(acc), log |-> log]
    ELSE LET r == get_all_geoms(items[i][2], new_name(root_name, items[i][1]), h)
         IN  IF IsError(r.val) THEN [val |-> r.val, log |-> log \o r.log]
             ELSE IF ~Hashable(r.val, h)
                  THEN [val |-> Error("TypeError"), log |-> log \o r.log]
                  ELSE get_all_geoms_items(items, i + 1, acc \cup {r.val},
                                           log \o r.log, root_name, h)

get_all_geoms(obj, root_name, h) ==
    IF obj.t = "component" THEN [val |-> obj.geoms, log |-> <<>>]
    ELSE IF obj.t = "geom" THEN [val |-> obj, log |-> <<>>]
    ELSE IF obj.t = "dict"
         THEN get_all_geoms_items(obj.items, 1, {}, <<>>, root_name, h)
         ELSE [val |-> None, log |-> <<root_name>>]

\* variant: the filter is ignored and every leaf is kept
keep_leaf_always(obj, filter_obj) == TRUE

\* lines 136-140: is the leaf obj added to RES
keep_leaf(obj, filter_obj) ==
    IF filter_obj = "None" THEN TRUE ELSE isinstance(obj, filter_obj)

\* flatten_all_filter(components, filter_obj): the error raised, the list
\* RES and the names printed
RECURSIVE flatten_all_filter(_, _)
RECURSIVE flatten_items(_, _, _, _)

\* the loop of lines 132-142 from entry i on
flatten_items(items, i, res, filter_obj) ==
    IF i > Len(items) THEN res
    ELSE LET name == items[i][1]
             obj == items[i][2]
         IN  IF IsDict(obj)
             THEN LET sub == flatten_all_filter(obj, filter_obj)
                  IN  flatten_items(items, i + 1,
                                    [res EXCEPT !.val = @ \o sub.val,
                                                !.printed = @ \o sub.printed],
                                    filter_obj)
             ELSE IF keep_leaf(obj, filter_obj)
                  THEN flatten_items(items, i + 1,
                                     [res EXCEPT !.val = Append(@, obj)], filter_obj)
                  ELSE flatten_items(items, i + 1,
                                     [res EXCEPT !.printed = Append(@, name)], filter_obj)

flatten_all_filter(comps, filter_obj) ==
    IF ~IsDict(comps)
    THEN [err |-> "AssertionError", val |-> <<>>, printed |-> <<>>]
    ELSE flatten_items(comps.items, 1,
                       [err |-> "", val |-> <<>>, printed |-> <<>>], filter_obj)

\* the smallest and the largest member of a non-empty set of integers
Min(S) == CHOOSE x \in S : \A y \in S : x <= y
Max(S) == CHOOSE x \in S : \A y \in S : x >= y

\* MultiPolygon(shapes).bounds unpacked into four values, line 164; the
\* bounds of an empty MultiPolygon are the empty tuple, which cannot be
\* unpacked
multipolygon_bounds(shapes) ==
    IF shapes = <<>> THEN Error("ValueError")
    ELSE LET xs == UNION {{shapes[i].pts[j][1] : j \in 1..Len(shapes[i].pts)} :
                             i \in 1..Len(shapes)}
             ys == UNION {{shapes[i].pts[j][2] : j \in 1..Len(shapes[i].pts)} :
                             i \in 1..Len(shapes)}
         IN  [t |-> "box", bounds |-> <<Min(xs), Min(ys), Max(xs), Max(ys)>>]

\* variant: a failure inside is answered with the zero box
get_all_component_bounds_zero_box(comps, filter_obj, h) ==
    [t |-> "box", bounds |-> <<0, 0, 0, 0>>]

\* get_all_component_bounds(components, filter_obj)
get_all_component_bounds(comps, filter_obj, h) ==
    IF ~IsDict(comps) THEN Error("AssertionError")
    ELSE LET g == get_all_geoms(comps, "components", h).val
         IN  IF IsError(g) THEN g
             ELSE LET f == flatten_all_filter(g, filter_obj)
                  IN  IF f.err # "" THEN Error(f.err)
                      ELSE multipolygon_bounds(f.val)

InitGeom ==
    /\ \/ \E m \in 0..MaxKeys : \E f \in NameChoices(m, MaxKeys) : \E g \in [1..m -> Values] :
             \/ /\ pc = "call_get_all_geoms"
                /\ components = [obj |-> DictOf(f, g), root_name |-> "components"]
                /\ hashable \in BOOLEAN
             \/ /\ pc = "call_flatten_all_filter"
                /\ components \in [components : {DictOf(f, g)}, filter_obj : {"None", "Polygon"}]
                /\ hashable = FALSE
             \/ /\ pc = "call_get_all_component_bounds"
                /\ components = [components |-> DictOf(f, g), filter_obj |-> "Polygon"]
                /\ hashable \in BOOLEAN
       \/ /\ pc = "call_get_all_geoms"
          /\ components \in [obj : Values, root_name : {"", "components"}]
          /\ hashable \in BOOLEAN
    /\ geomres = <<>>
    /\ points = <<>>
    /\ rnd = FALSE
    /\ pass1 = <<>>
    /\ cleaned = <<>>
    /\ vecarg = <<>>
    /\ vecres = <<>>

GetAllGeoms ==
    /\ pc = "call_get_all_geoms"
    /\ geomres' = get_all_geoms(components.obj, components.root_name, hashable)
    /\ pc' = "ret_get_all_geoms"
    /\ UNCHANGED <<points, pass1, cleaned, rnd, components, hashable, vecarg, vecres>>

FlattenAllFilter ==
    /\ pc = "call_flatten_all_filter"
    /\ geomres' = flatten_all_filter(components.components, components.filter_obj)
    /\ pc' = "ret_flatten_all_filter"
    /\ UNCHANGED <<points, pass1, cleaned, rnd, components, hashable, vecarg, vecres>>

GetAllComponentBounds ==
    /\ pc = "call_get_all_component_bounds"
    /\ geomres' = get_all_component_bounds(components.components, components.filter_obj,
                                           hashable)
    /\ pc' = "ret_get_all_component_bounds"
    /\ UNCHANGED <<points, pass1, cleaned, rnd, components, hashable, vecarg, vecres>>

NextGeom == GetAllGeoms \/ FlattenAllFilter \/ GetAllComponentBounds

SpecGeom == InitGeom /\ [][NextGeom]_vars

--------------------------------------------------------------------------
(* Properties of the aggregator *)

\* the object reached from obj by following the entry numbers of path
RECURSIVE NodeAt(_, _)
NodeAt(obj, path) ==
    IF path = <<>> THEN obj
    ELSE IF IsDict(obj) /\ Head(path) <= Len(obj.items)
         THEN NodeAt(obj.items[Head(path)][2], Tail(path))
         ELSE [t |-> "absent"]

\* the paths to the leaves of a nested dict: the values that are not dicts
LeafPaths(tree) ==
    LET n == Len(tree.items)
        sub(i) == tree.items[i][2]
    IN  {<<i>> : i \in {i \in 1..n : ~IsDict(sub(i))}}
        \cup UNION {{<<i, j>> : j \in {j \in 1..Len(sub(i).items) :
                                           ~IsDict(sub(i).items[j][2])}} :
                      i \in {i \in 1..n : IsDict(sub(i))}}

\* depth-first order of two leaf paths
PathLess(p, q) ==
    \/ p[1] < q[1]
    \/ p[1] = q[1] /\ Len(p) = 2 /\ Len(q) = 2 /\ p[2] < q[2]

\* C1: for a nested dict whose leaves are polygons, at least one,
\* get_all_component_bounds returns (min x, min y, max x, max y) over all
\* the vertices of all the polygons.
C1_BoundsOfAllPolygons ==
    pc = "ret_get_all_component_bounds" =>
        LET tree == components.components
            L == LeafPaths(tree)
            xs == UNION {{NodeAt(tree, p).pts[j][1] : j \in 1..Len(NodeAt(tree, p).pts)} : p \in L}
            ys == UNION {{NodeAt(tree, p).pts[j][2] : j \in 1..Len(NodeAt(tree, p).pts)} : p \in L}
        IN  (L # {} /\ \A p \in L : isinstance(NodeAt(tree, p), "Polygon"))
                => /\ geomres.t = "box"
                   /\ geomres.bounds = <<Min(xs), Min(ys), Max(xs), Max(ys)>>

\* C2: for a mapping, get_all_geoms returns a mapping with the same names,
\* each value being get_all_geoms of the sub-object under the dotted name.
C2_GeomsOfMappingIsMapping ==
    (pc = "ret_get_all_geoms" /\ IsDict(components.obj)) =>
        LET items == components.obj.items IN
        /\ IsDict(geomres.val)
        /\ Len(geomres.val.items) = Len(items)
        /\ \A i \in 1..Len(items) :
              /\ geomres.val.items[i][1] = items[i][1]
              /\ geomres.val.items[i][2] =
                    get_all_geoms(items[i][2],
                                  new_name(components.root_name, items[i][1]),
                                  hashable).val

\* C3: get_all_component_bounds of a collection without a polygon to bound
\* ends in an error and returns no bounding box.
C3_NoShapesIsAnError ==
    pc = "ret_get_all_component_bounds" =>
        LET tree == components.components IN
        (\A p \in LeafPaths(tree) : ~isinstance(NodeAt(tree, p), components.filter_obj))
            => /\ IsError(geomres)
               /\ geomres.t # "box"

C3_Witness ==
    /\ pc = "ret_get_all_component_bounds"
    /\ components.components = Dict(<<>>)
    /\ geomres = Error("AssertionError")

\* C9: flatten_all_filter returns the leaves of the nested dict in
\* depth-first key order, all of them without a filter and exactly those of
\* the filter's kind with one; no dict is in the result and no error is
\* raised.
C9_FlattenKeepsLeavesInOrder ==
    pc = "ret_flatten_all_filter" =>
        LET tree == components.components
            f == components.filter_obj
            Kept == {p \in LeafPaths(tree) :
                        f = "None" \/ isinstance(NodeAt(tree, p), f)}
            Rank(p) == Cardinality({q \in Kept : PathLess(q, p)}) + 1
        IN  /\ geomres.err = ""
            /\ Len(geomres.val) = Cardinality(Kept)
            /\ \A p \in Kept : geomres.val[Rank(p)] = NodeAt(tree, p)
            /\ \A i \in 1..Len(geomres.val) : ~IsDict(geomres.val[i])

C9_Witness ==
    /\ pc = "ret_flatten_all_filter"
    /\ components.filter_obj = "Polygon"
    /\ components.components =
          Dict(<< <<"b", Dict(<< <<"a", Geom("Point", << <<1, 1>> >>)>>,
                                 <<"b", Square(2, 2)>> >>)>>,
                  <<"a", Square(0, 0)>> >>)
    /\ geomres.val = <<Square(2, 2), Square(0, 0)>>
    /\ geomres.printed = <<"a">>

====
